---- MODULE Spec2Model ----
(***************************************************************************)
(* Distance-vector routing daemon (dv.py): routing table, Bellman-Ford     *)
(* relaxation, wire codec, timeout sweep, operator commands, and a small   *)
(* network of such daemons exchanging announcements over UDP.              *)
(*                                                                         *)
(* Conventions                                                             *)
(*  - float('inf') is the integer FloatInf, larger than every finite cost  *)
(*    of the model; Plus keeps it absorbing, and < / = are the native ones.*)
(*  - Python None (next_hop_id) is the id None == 0; server ids are >= 1.  *)
(*  - a dict is a sequence of records in insertion order (Python dicts     *)
(*    iterate in insertion order): routing_table[i] is a sequence of       *)
(*    [destination_id, next_hop_id, cost].                                 *)
(*  - a datagram is the sequence of its 32-bit big-endian words: 3 header  *)
(*    words, then 5 words per entry (struct formats '!II'+4s, 4s+'!IIII'). *)
(*  - time is counted in update intervals; time_since_update[i][n] is      *)
(*    current_time - neighbor_last_update[n], saturated just above the     *)
(*    timeout threshold (the code only compares it with the threshold).    *)
(*  - link and route costs are integers (int(cost) is then exact).         *)
(***************************************************************************)
EXTENDS Integers, Sequences, FiniteSets, TLC

VARIABLES
    all_servers,         \* [node -> [server_id -> [ip, port]]]  self.all_servers
    neighbors,           \* [node -> [neighbor_id -> cost]]      self.neighbors[n]['cost']
    time_since_update,   \* [node -> [neighbor_id -> 0..TIMEOUT_MULTIPLIER+1]]
    routing_table,       \* [node -> Seq([destination_id, next_hop_id, cost])]
    packets_received,    \* [node -> Nat]                         self.packets_received
    running,             \* [node -> BOOLEAN]                     self.running
    socket_open,         \* [node -> BOOLEAN]                     self.socket not closed
    net,                 \* [<<src, dst>> -> Seq(datagram)]       datagrams in flight
    valid_received,      \* [node -> valid announcements received since the last packets command]
    pc                   \* [node -> where its three threads are]             (see StartOfRun)

vars == <<all_servers, neighbors, time_since_update, routing_table, packets_received,
          running, socket_open, net, valid_received, pc>>

\* ------------------------------------------------------------ constants
INFINITY == 999999
TIMEOUT_MULTIPLIER == 3
FloatInf == 2000000000
None == 0
LoopbackIp == 2130706433

\* ------------------------------------------------------------ bounds
MaxPackets == 1
MaxInFlight == 1

\* ------------------------------------------------------------ generic helpers
Min(a, b) == IF a < b THEN a ELSE b

\* float addition restricted to non-negative integers and inf
Plus(a, b) == IF a = FloatInf \/ b = FloatInf THEN FloatInf ELSE a + b

\* dict helpers over a sequence of records keyed by destination_id
Keys(rt) == {rt[k].destination_id : k \in 1..Len(rt)}

Get(rt, d) == rt[CHOOSE k \in 1..Len(rt) : rt[k].destination_id = d]

RoutingEntry(destination_id, next_hop_id, cost) ==
    [destination_id |-> destination_id, next_hop_id |-> next_hop_id, cost |-> cost]

\* routing_table[dest_id].cost = cost
SetCost(rt, dest_id, cost) ==
    [k \in 1..Len(rt) |->
        IF rt[k].destination_id = dest_id
        THEN RoutingEntry(dest_id, rt[k].next_hop_id, cost) ELSE rt[k]]

\* ------------------------------------------------------------ topologies
\* get_local_config: three servers on one machine
LocalServers ==
    (1 :> [ip |-> LoopbackIp, port |-> 5001]) @@
    (2 :> [ip |-> LoopbackIp, port |-> 5002]) @@
    (3 :> [ip |-> LoopbackIp, port |-> 5003])

LocalTopology ==
    (1 :> ((2 :> 5) @@ (3 :> 8))) @@
    (2 :> ((1 :> 5) @@ (3 :> 3))) @@
    (3 :> ((1 :> 8) @@ (2 :> 3)))

\* get_custom_config: a line 1-2-3, and a triangle whose direct link 1-3 is
\* worse than the path through 2
LineTopology ==
    (1 :> (2 :> 5)) @@
    (2 :> ((1 :> 5) @@ (3 :> 3))) @@
    (3 :> (2 :> 3))

DetourTopology ==
    (1 :> ((2 :> 5) @@ (3 :> 10))) @@
    (2 :> ((1 :> 5) @@ (3 :> 3))) @@
    (3 :> ((1 :> 10) @@ (2 :> 3)))

\* ------------------------------------------------------------ startup
\* the ids of a dict in ascending order (generate_topology_files writes the
\* server lines and the neighbor lines sorted by id)
RECURSIVE SortedSeq(_)
SortedSeq(S) ==
    IF S = {} THEN <<>>
    ELSE LET m == CHOOSE x \in S : \A y \in S : x <= y
         IN <<m>> \o SortedSeq(S \ {m})

RECURSIVE InitEntries(_, _, _)
InitEntries(ids, nbrs, self) ==
    IF ids = <<>> THEN <<>>
    ELSE LET d == Head(ids)
         IN <<IF d = self THEN RoutingEntry(d, d, 0)
               ELSE IF d \in DOMAIN nbrs THEN RoutingEntry(d, d, nbrs[d])
               ELSE RoutingEntry(d, None, FloatInf)>>
            \o InitEntries(Tail(ids), nbrs, self)

\* InitializeRoutingTable without the loop over the servers that are no
\* neighbors
InitializeRoutingTableNeighborsOnly(self, servers, nbrs) ==
    InitEntries(<<self>> \o SortedSeq(DOMAIN nbrs), nbrs, self)

\* initialize_routing_table: self first, then the neighbors, then every other
\* server of the topology file
InitializeRoutingTable(self, servers, nbrs) ==
    InitEntries(<<self>> \o SortedSeq(DOMAIN nbrs)
                \o SortedSeq(DOMAIN servers \ ({self} \cup DOMAIN nbrs)),
                nbrs, self)

Links(nodes) == {p \in nodes \X nodes : p[1] # p[2]}

\* run: the periodic thread and the receive thread are started at the head of
\* their while loops and the main thread waits in input(); `pending` is the
\* rest of the neighbors the sendto loop of the periodic thread has to visit,
\* `message` the datagram it is sending, and `announced` whether the periodic
\* thread has called sendto since the start; `announcement` and
\* `cost_to_sender` are the arguments and the local of the update_routing_table
\* call the receive thread is in, `printed` the counter value the packets
\* command has printed and not yet reset; `entries` is the rest of the list
\* of route entries create_update_message has to pack (each a reference to the
\* entry of one destination), and `instants` the routing tables that have
\* existed since it made that list
StartOfRun ==
    [ticker |-> "while", entries |-> <<>>, instants |-> {}, pending |-> <<>>,
     message |-> <<>>, announced |-> FALSE,
     receiver |-> "while", announcement |-> <<>>, cost_to_sender |-> 0,
     command |-> "input", printed |-> 0]

\* DVServer.__init__ on every node of `nodes`, from one generated configuration
Startup(nodes, servers, topology) ==
    /\ all_servers = [i \in nodes |-> servers]
    /\ neighbors = [i \in nodes |-> topology[i]]
    /\ time_since_update = [i \in nodes |-> [n \in DOMAIN topology[i] |-> 0]]
    /\ routing_table = [i \in nodes |-> InitializeRoutingTable(i, servers, topology[i])]
    /\ packets_received = [i \in nodes |-> 0]
    /\ running = [i \in nodes |-> TRUE]
    /\ socket_open = [i \in nodes |-> TRUE]
    /\ net = [l \in Links(nodes) |-> <<>>]
    /\ valid_received = [i \in nodes |-> 0]
    /\ pc = [i \in nodes |-> StartOfRun]

Nodes == DOMAIN routing_table

\* ------------------------------------------------------------ wire codec
\* the cost field of an emitted entry: float('inf') -> INFINITY, else int(cost)
WireCost(cost) == IF cost = FloatInf THEN INFINITY ELSE cost

\* the cost of a received entry: the INFINITY constant back to float('inf')
ParsedCost(cost) == IF cost >= INFINITY THEN FloatInf ELSE cost

\* the five words create_update_message packs for one route entry
PackEntry(entry, servers) ==
    LET known == entry.destination_id \in DOMAIN servers
    IN <<IF known THEN servers[entry.destination_id].ip ELSE 0,
         IF known THEN servers[entry.destination_id].port ELSE 0,
         0, entry.destination_id, WireCost(entry.cost)>>

\* CreateUpdateMessage that leaves the route to self out of the vector
CreateUpdateMessageNoSelf(rt, servers, self) ==
    LET NotSelf(entry) == entry.destination_id # self
        others == SelectSeq(rt, NotSelf)
    IN [w \in 1..(3 + 5 * Len(others)) |->
           IF w = 1 THEN Len(others)
           ELSE IF w = 2 THEN servers[self].port
           ELSE IF w = 3 THEN servers[self].ip
           ELSE LET entry == others[((w - 4) \div 5) + 1]
                    known == entry.destination_id \in DOMAIN servers
                IN CASE (w - 4) % 5 = 0 ->
                           IF known THEN servers[entry.destination_id].ip ELSE 0
                     [] (w - 4) % 5 = 1 ->
                           IF known THEN servers[entry.destination_id].port ELSE 0
                     [] (w - 4) % 5 = 2 -> 0
                     [] (w - 4) % 5 = 3 -> entry.destination_id
                     [] OTHER -> IF entry.cost = FloatInf THEN INFINITY ELSE entry.cost]

\* create_update_message of server self with routing table rt: the header
\* words, then for the k-th route entry the words dest_ip, dest_port, padding,
\* dest_id, cost
CreateUpdateMessage(rt, servers, self) ==
    [w \in 1..(3 + 5 * Len(rt)) |->
        IF w = 1 THEN Len(rt)
        ELSE IF w = 2 THEN servers[self].port
        ELSE IF w = 3 THEN servers[self].ip
        ELSE LET entry == rt[((w - 4) \div 5) + 1]
                 known == entry.destination_id \in DOMAIN servers
             IN CASE (w - 4) % 5 = 0 ->
                        IF known THEN servers[entry.destination_id].ip ELSE 0
                  [] (w - 4) % 5 = 1 ->
                        IF known THEN servers[entry.destination_id].port ELSE 0
                  [] (w - 4) % 5 = 2 -> 0
                  [] (w - 4) % 5 = 3 -> entry.destination_id
                  [] OTHER -> WireCost(entry.cost)]

\* the dict `entries` after the parse loop over num_fields entries, as the
\* sequence of its <<dest_id, cost>> items: a dest_id keeps the position of its
\* first entry and the cost of its last one
UnpackEntries(data, num_fields) ==
    LET DestId(f) == data[3 + 5 * (f - 1) + 4]
        Cost(f) == ParsedCost(data[3 + 5 * (f - 1) + 5])
        IsFirst(f) == \A g \in 1..(f - 1) : DestId(g) # DestId(f)
        Last(f) == CHOOSE g \in f..num_fields :
                       /\ DestId(g) = DestId(f)
                       /\ \A h \in (g + 1)..num_fields : DestId(h) # DestId(f)
        firsts == SelectSeq([f \in 1..num_fields |-> f], IsFirst)
    IN [p \in 1..Len(firsts) |-> <<DestId(firsts[p]), Cost(Last(firsts[p]))>>]

\* parse_update_message: <<sender_id, entries>>, or <<None, <<>>>> when the
\* sender address is of no server or the buffer ends before the last entry
ParseUpdateMessage(data, servers) ==
    IF Len(data) < 3 THEN <<None, <<>>>>
    ELSE LET num_fields == data[1]
             sender_port == data[2]
             sender_ip == data[3]
             matches == {sid \in DOMAIN servers :
                            servers[sid].ip = sender_ip /\ servers[sid].port = sender_port}
         IN IF matches = {} THEN <<None, <<>>>>
            ELSE IF Len(data) < 3 + 5 * num_fields THEN <<None, <<>>>>
            ELSE <<CHOOSE sid \in matches : \A o \in matches : sid <= o,
                   UnpackEntries(data, num_fields)>>

\* ------------------------------------------------------------ update engine
\* RelaxEntry with the comparison new_cost > current_cost
RelaxEntryReversed(current_entry, sender_id, new_cost) ==
    IF new_cost > current_entry.cost
    THEN RoutingEntry(current_entry.destination_id, sender_id, new_cost)
    ELSE IF current_entry.next_hop_id = sender_id /\ new_cost # current_entry.cost
    THEN RoutingEntry(current_entry.destination_id, current_entry.next_hop_id, new_cost)
    ELSE current_entry

\* RelaxEntry whose elif branch does cost += new_cost
RelaxEntryAccumulate(current_entry, sender_id, new_cost) ==
    IF new_cost < current_entry.cost
    THEN RoutingEntry(current_entry.destination_id, sender_id, new_cost)
    ELSE IF current_entry.next_hop_id = sender_id /\ new_cost # current_entry.cost
    THEN RoutingEntry(current_entry.destination_id, current_entry.next_hop_id,
                      Plus(current_entry.cost, new_cost))
    ELSE current_entry

\* RelaxEntry with the comparison new_cost <= current_cost
RelaxEntryTies(current_entry, sender_id, new_cost) ==
    IF new_cost <= current_entry.cost
    THEN RoutingEntry(current_entry.destination_id, sender_id, new_cost)
    ELSE IF current_entry.next_hop_id = sender_id /\ new_cost # current_entry.cost
    THEN RoutingEntry(current_entry.destination_id, current_entry.next_hop_id, new_cost)
    ELSE current_entry

\* RelaxEntry whose if branch keeps the next hop
RelaxEntryKeepHop(current_entry, sender_id, new_cost) ==
    IF new_cost < current_entry.cost
    THEN RoutingEntry(current_entry.destination_id, current_entry.next_hop_id, new_cost)
    ELSE IF current_entry.next_hop_id = sender_id /\ new_cost # current_entry.cost
    THEN RoutingEntry(current_entry.destination_id, current_entry.next_hop_id, new_cost)
    ELSE current_entry

\* RelaxEntry without the elif branch
RelaxEntryNoRefresh(current_entry, sender_id, new_cost) ==
    IF new_cost < current_entry.cost
    THEN RoutingEntry(current_entry.destination_id, sender_id, new_cost)
    ELSE current_entry

\* the if / elif of update_routing_table on one entry
RelaxEntry(current_entry, sender_id, new_cost) ==
    IF new_cost < current_entry.cost
    THEN RoutingEntry(current_entry.destination_id, sender_id, new_cost)
    ELSE IF current_entry.next_hop_id = sender_id /\ new_cost # current_entry.cost
    THEN RoutingEntry(current_entry.destination_id, current_entry.next_hop_id, new_cost)
    ELSE current_entry

\* the loop of update_routing_table over the items of `entries` (each dest_id
\* once): a known destination is relaxed in place, an unknown one is first
\* appended with cost inf; the route to self is skipped
Relax(rt, self, sender_id, cost_to_sender, entries) ==
    LET Advertised(d) == \E p \in 1..Len(entries) : entries[p][1] = d
        SenderCost(d) == entries[CHOOSE p \in 1..Len(entries) : entries[p][1] = d][2]
        IsNew(item) == item[1] # self /\ item[1] \notin Keys(rt)
        added == SelectSeq(entries, IsNew)
    IN [k \in 1..Len(rt) |->
           IF rt[k].destination_id # self /\ Advertised(rt[k].destination_id)
           THEN RelaxEntry(rt[k], sender_id,
                           Plus(cost_to_sender, SenderCost(rt[k].destination_id)))
           ELSE rt[k]]
       \o [p \in 1..Len(added) |->
              RelaxEntry(RoutingEntry(added[p][1], None, FloatInf), sender_id,
                         Plus(cost_to_sender, added[p][2]))]

\* UpdateRoutingTable that leaves the link cost of the sender out of new_cost
UpdateRoutingTableFree(rt, nbrs, self, sender_id, entries) ==
    IF sender_id \notin DOMAIN nbrs THEN rt
    ELSE Relax(rt, self, sender_id, 0, entries)

\* update_routing_table on the state (rt, nbrs) of node self
UpdateRoutingTable(rt, nbrs, self, sender_id, entries) ==
    IF sender_id \notin DOMAIN nbrs THEN rt
    ELSE Relax(rt, self, sender_id, nbrs[sender_id], entries)

\* ------------------------------------------------------------ timeout sweep
\* TimedOut with the comparison time_since_update >= timeout_threshold
TimedOutEarly(nbrs, since) ==
    {n \in DOMAIN nbrs : since[n] >= TIMEOUT_MULTIPLIER /\ nbrs[n] # FloatInf}

\* the neighbors check_neighbor_timeouts marks dead
TimedOut(nbrs, since) ==
    {n \in DOMAIN nbrs : since[n] > TIMEOUT_MULTIPLIER /\ nbrs[n] # FloatInf}

\* CheckNeighborTimeouts that deletes the routes through a dead neighbor
CheckNeighborTimeoutsDeleting(nbrs, since, rt) ==
    LET dead == TimedOut(nbrs, since)
        Kept(entry) == entry.next_hop_id \notin dead
    IN <<[n \in DOMAIN nbrs |-> IF n \in dead THEN FloatInf ELSE nbrs[n]],
         SelectSeq(rt, Kept)>>

\* CheckNeighborTimeouts that gives a neighbor heard from in time a finite
\* link cost again
CheckNeighborTimeoutsReviving(nbrs, since, rt) ==
    LET dead == TimedOut(nbrs, since)
    IN <<[n \in DOMAIN nbrs |->
             IF n \in dead THEN FloatInf
             ELSE IF nbrs[n] = FloatInf /\ since[n] <= TIMEOUT_MULTIPLIER THEN 1
             ELSE nbrs[n]],
         [k \in 1..Len(rt) |->
             IF rt[k].next_hop_id \in dead
             THEN RoutingEntry(rt[k].destination_id, rt[k].next_hop_id, FloatInf)
             ELSE rt[k]]>>

\* check_neighbor_timeouts: <<neighbors, routing_table>> after the sweep
CheckNeighborTimeouts(nbrs, since, rt) ==
    LET dead == TimedOut(nbrs, since)
    IN <<[n \in DOMAIN nbrs |-> IF n \in dead THEN FloatInf ELSE nbrs[n]],
         [k \in 1..Len(rt) |->
             IF rt[k].next_hop_id \in dead
             THEN RoutingEntry(rt[k].destination_id, rt[k].next_hop_id, FloatInf)
             ELSE rt[k]]>>

\* ------------------------------------------------------------ emission
\* the loop of send_update_to_neighbors: sendto every key of self.neighbors; a
\* datagram to a modelled node is queued unless the link already holds
\* MaxInFlight datagrams (UDP then loses it)
SendTo(netw, i, nbrs, message) ==
    [l \in DOMAIN netw |->
        IF l[1] = i /\ l[2] \in DOMAIN nbrs /\ Len(netw[l]) < MaxInFlight
        THEN Append(netw[l], message) ELSE netw[l]]

\* ------------------------------------------------------------ threads
\* time.sleep / the wall clock: one update interval passes on every node
Elapse ==
    /\ time_since_update' =
          [i \in Nodes |-> [n \in DOMAIN time_since_update[i] |->
              Min(time_since_update[i][n] + 1, TIMEOUT_MULTIPLIER + 1)]]
    /\ time_since_update' # time_since_update
    /\ UNCHANGED <<all_servers, neighbors, routing_table, packets_received, running,
                   socket_open, net, valid_received>>
    /\ UNCHANGED pc

\* one iteration of periodic_update_thread after its sleep
PeriodicUpdate(i) ==
    /\ running[i]
    /\ \E swept \in {CheckNeighborTimeouts(neighbors[i], time_since_update[i],
                                             routing_table[i])} :
          /\ neighbors' = [neighbors EXCEPT ![i] = swept[1]]
          /\ routing_table' = [routing_table EXCEPT ![i] = swept[2]]
          /\ net' = SendTo(net, i, neighbors[i],
                           CreateUpdateMessage(swept[2], all_servers[i], i))
    /\ UNCHANGED <<all_servers, time_since_update, packets_received, running,
                   socket_open, valid_received>>
    /\ UNCHANGED pc

\* the packet counter of the model stops at MaxPackets
CountUp(c) == Min(c + 1, MaxPackets)

\* one iteration of receive_thread on the datagram `data`
ReceiveThread(i, data) ==
    /\ running[i]
    /\ \E parsed \in {ParseUpdateMessage(data, all_servers[i])} :
       LET sender_id == parsed[1]
           entries == parsed[2]
       IN /\ packets_received' = [packets_received EXCEPT ![i] = CountUp(@)]
          /\ valid_received' = [valid_received EXCEPT ![i] =
                                   IF sender_id # None THEN CountUp(@) ELSE @]
          /\ time_since_update' =
                IF sender_id # None /\ sender_id \in DOMAIN time_since_update[i]
                THEN [time_since_update EXCEPT ![i][sender_id] = 0]
                ELSE time_since_update
          /\ routing_table' =
                IF sender_id # None
                THEN [routing_table EXCEPT ![i] =
                        UpdateRoutingTable(@, neighbors[i], i, sender_id, entries)]
                ELSE routing_table
    /\ UNCHANGED <<all_servers, neighbors, running, socket_open>>

\* ------------------------------------------------------------ operator commands
\* HandleUpdateCommand without the check that one of the two servers is this
\* server
HandleUpdateCommandAnyPair(i, server1, server2, new_cost) ==
    LET neighbor_id == IF server1 = i THEN server2 ELSE server1
    IN IF neighbor_id \notin DOMAIN neighbors[i]
       THEN UNCHANGED <<neighbors, routing_table>>
       ELSE /\ neighbors' = [neighbors EXCEPT ![i][neighbor_id] = new_cost]
            /\ routing_table' = [routing_table EXCEPT ![i] =
                  SetCost(@, neighbor_id, new_cost)]

\* handle_update_command with integer arguments
HandleUpdateCommand(i, server1, server2, new_cost) ==
    LET neighbor_id == IF server1 = i THEN server2 ELSE server1
    IN IF server1 # i /\ server2 # i THEN UNCHANGED <<neighbors, routing_table>>
       ELSE IF neighbor_id \notin DOMAIN neighbors[i]
       THEN UNCHANGED <<neighbors, routing_table>>
       ELSE /\ neighbors' = [neighbors EXCEPT ![i][neighbor_id] = new_cost]
            /\ routing_table' = [routing_table EXCEPT ![i] =
                  SetCost(@, neighbor_id, new_cost)]

UpdateCommand(i, server1, server2, new_cost) ==
    /\ running[i]
    /\ HandleUpdateCommand(i, server1, server2, new_cost)
    /\ UNCHANGED <<all_servers, time_since_update, packets_received, running,
                   socket_open, net, valid_received>>
    /\ UNCHANGED pc

\* step: send_update_to_neighbors
StepCommand(i) ==
    /\ running[i]
    /\ net' = SendTo(net, i, neighbors[i],
                     CreateUpdateMessage(routing_table[i], all_servers[i], i))
    /\ UNCHANGED <<all_servers, neighbors, time_since_update, routing_table,
                   packets_received, running, socket_open, valid_received>>
    /\ UNCHANGED pc

\* packets: print the counter, then reset it
PacketsCommand(i) ==
    /\ running[i]
    /\ packets_received' = [packets_received EXCEPT ![i] = 0]
    /\ valid_received' = [valid_received EXCEPT ![i] = 0]
    /\ UNCHANGED <<all_servers, neighbors, time_since_update, routing_table, running,
                   socket_open, net>>
    /\ UNCHANGED pc

\* display: display_routing_table only reads
DisplayCommand(i) ==
    /\ running[i]
    /\ UNCHANGED vars

\* update or disable with the wrong number of words: command_thread prints the
\* usage line
UsageError(i) ==
    /\ running[i]
    /\ UNCHANGED vars

\* a first word that is none of the six commands: command_thread prints it
UnknownCommand(i) ==
    /\ running[i]
    /\ UNCHANGED vars

\* HandleDisableCommand without the check that server_id is a neighbor
HandleDisableCommandUnchecked(i, server_id) ==
    /\ neighbors' = [neighbors EXCEPT ![i] =
          [n \in DOMAIN @ |-> IF n = server_id THEN FloatInf ELSE @[n]]]
    /\ routing_table' = [routing_table EXCEPT ![i] =
          [k \in 1..Len(@) |->
              IF @[k].destination_id = server_id \/ @[k].next_hop_id = server_id
              THEN RoutingEntry(@[k].destination_id, @[k].next_hop_id, FloatInf)
              ELSE @[k]]]

\* handle_disable_command with an integer argument
HandleDisableCommand(i, server_id) ==
    IF server_id \notin DOMAIN neighbors[i] THEN UNCHANGED <<neighbors, routing_table>>
    ELSE /\ neighbors' = [neighbors EXCEPT ![i][server_id] = FloatInf]
         /\ routing_table' = [routing_table EXCEPT ![i] =
               [k \in 1..Len(@) |->
                   IF @[k].destination_id = server_id \/ @[k].next_hop_id = server_id
                   THEN RoutingEntry(@[k].destination_id, @[k].next_hop_id, FloatInf)
                   ELSE @[k]]]

DisableCommand(i, server_id) ==
    /\ running[i]
    /\ HandleDisableCommand(i, server_id)
    /\ UNCHANGED <<all_servers, time_since_update, packets_received, running,
                   socket_open, net, valid_received>>
    /\ UNCHANGED pc

\* handle_crash_command: clear the flag, close the socket, sys.exit
CrashCommand(i) ==
    /\ running[i]
    /\ running' = [running EXCEPT ![i] = FALSE]
    /\ socket_open' = [socket_open EXCEPT ![i] = FALSE]
    /\ UNCHANGED <<all_servers, neighbors, time_since_update, routing_table,
                   packets_received, net, valid_received>>
    /\ UNCHANGED pc

\* ------------------------------------------------------------ one node and its environment
\* inputs of the single-node specification
AdvCosts == {3, INFINITY}
UpdateCosts == {2, FloatInf}
CommandIds == {1, 2, 3}

RECURSIVE Flatten(_)
Flatten(fields) ==
    IF fields = <<>> THEN <<>>
    ELSE <<LoopbackIp, 0, 0, Head(fields)[1], Head(fields)[2]>> \o Flatten(Tail(fields))

\* a datagram as another implementation of the wire format could emit it
Datagram(num_fields, port, fields) == <<num_fields, port, LoopbackIp>> \o Flatten(fields)

\* the distance vectors server s can announce to server 1: itself at cost 0,
\* server 1 at the link cost, the third server at any advertised cost; and one
\* vector naming the id 5, which is in no topology file
EnvVectors(s) ==
    {<<<<s, 0>>, <<1, 5>>, <<5 - s, c>>>> : c \in AdvCosts}
    \cup {<<<<s, 0>>, <<5, 3>>>>}

\* decodable datagrams from the two other servers of the topology file
ValidDatagrams ==
    UNION {{Datagram(Len(f), LocalServers[s].port, f) : f \in EnvVectors(s)} : s \in {2, 3}}

\* datagrams parse_update_message rejects: shorter than a header, an entry
\* count larger than the entries carried, a sender address (port 5009) of no
\* server
InvalidDatagrams ==
    {<<1, 5002>>,
     Datagram(2, 5002, <<<<3, 3>>>>),
     Datagram(1, 5009, <<<<3, 3>>>>)}

EnvDatagrams == ValidDatagrams \cup InvalidDatagrams

\* a datagram arrives on the socket of node i
EnvReceive(i, data) ==
    /\ packets_received[i] < MaxPackets
    /\ ReceiveThread(i, data)
    /\ UNCHANGED <<net, pc>>

Init ==
    \E topology \in {LocalTopology, LineTopology} : Startup({1}, LocalServers, topology)

Next ==
    \/ Elapse
    \/ \E i \in Nodes : PeriodicUpdate(i)
    \/ \E i \in Nodes, data \in EnvDatagrams : EnvReceive(i, data)
    \/ \E i \in Nodes, server1 \in CommandIds, server2 \in CommandIds,
          new_cost \in UpdateCosts : UpdateCommand(i, server1, server2, new_cost)
    \/ \E i \in Nodes : StepCommand(i)
    \/ \E i \in Nodes : PacketsCommand(i)
    \/ \E i \in Nodes : DisplayCommand(i)
    \/ \E i \in Nodes, server_id \in CommandIds : DisableCommand(i, server_id)
    \/ \E i \in Nodes : UsageError(i)
    \/ \E i \in Nodes : UnknownCommand(i)
    \/ \E i \in Nodes : CrashCommand(i)

Spec == Init /\ [][Next]_vars

\* ------------------------------------------------------------ a network of nodes
\* the receiver of node i takes the oldest datagram of the link from node j
NetReceive(i, j) ==
    /\ <<j, i>> \in DOMAIN net
    /\ net[<<j, i>>] # <<>>
    /\ \E data \in {Head(net[<<j, i>>])} : ReceiveThread(i, data)
    /\ net' = [net EXCEPT ![<<j, i>>] = Tail(@)]
    /\ UNCHANGED pc

\* every server of a generated configuration is started; nobody types a
\* command, and every neighbor is heard from within the timeout (the clock of
\* time_since_update does not advance)
InitNet ==
    \E topology \in {LocalTopology, LineTopology, DetourTopology} :
        Startup({1, 2, 3}, LocalServers, topology)

NextNet ==
    \/ \E i \in Nodes : PeriodicUpdate(i)
    \/ \E i \in Nodes, j \in Nodes : NetReceive(i, j)

\* the oldest datagram of the link from j to i leaves the link (within NextNet
\* this is a NetReceive(i, j) step, which is enabled whenever the link is not
\* empty)
Delivery(i, j) ==
    /\ <<j, i>> \in DOMAIN net
    /\ net[<<j, i>>] # <<>>
    /\ net' = [net EXCEPT ![<<j, i>>] = Tail(@)]

\* each ticker thread keeps running and each datagram in flight is delivered
FairNet ==
    /\ \A i \in {1, 2, 3} : WF_vars(PeriodicUpdate(i))
    /\ \A i \in {1, 2, 3}, j \in {1, 2, 3} : WF_net(Delivery(i, j))

SpecNet == InitNet /\ [][NextNet]_vars /\ FairNet

\* the cost of the cheapest path from i to d of at most `hops` links, over
\* the link costs nbrs
RECURSIVE PathCost(_, _, _, _)
PathCost(nbrs, i, d, hops) ==
    IF i = d THEN 0
    ELSE IF hops = 0 THEN FloatInf
    ELSE LET via == {Plus(nbrs[i][n], PathCost(nbrs, n, d, hops - 1)) : n \in DOMAIN nbrs[i]}
         IN IF via = {} THEN FloatInf ELSE CHOOSE c \in via : \A o \in via : c <= o

ShortestPath(i, d) == PathCost(neighbors, i, d, Cardinality(Nodes) - 1)

Converged ==
    \A i \in Nodes, d \in Nodes : Get(routing_table[i], d).cost = ShortestPath(i, d)

\* C5: with stable link costs, no commands and no timeouts, under fair
\* announcements and deliveries every node eventually reaches, and then keeps,
\* the shortest-path cost to every destination
C5_Convergence == <>[]Converged

\* a route learnt through a neighbor is in place at the shortest-path cost
C5_Witness ==
    /\ Converged
    /\ \E i \in Nodes, d \in Nodes :
          d # i /\ Get(routing_table[i], d).next_hop_id \notin {d, None}

\* ------------------------------------------------------------ properties of one node
\* C1: in every reachable state the route entry for self has next_hop self and
\* cost 0
C1_SelfRoute ==
    \A i \in Nodes : Get(routing_table[i], i) = RoutingEntry(i, i, 0)

\* announcements naming server 1 were applied, a neighbor was taken down and
\* another link cost was changed by the operator
C1_Witness ==
    /\ valid_received[1] > 0
    /\ \E n \in DOMAIN neighbors[1] : neighbors[1][n] = FloatInf
    /\ \E k \in 1..Len(routing_table[1]) :
          /\ routing_table[1][k].destination_id # 1
          /\ routing_table[1][k].next_hop_id # routing_table[1][k].destination_id
          /\ routing_table[1][k].cost < FloatInf
    /\ Get(routing_table[1], 1) = RoutingEntry(1, 1, 0)

\* C2: in every reachable state a route has cost inf exactly when its next_hop
\* is None
C2_InfIffNoNextHop ==
    \A i \in Nodes : \A k \in 1..Len(routing_table[i]) :
        (routing_table[i][k].cost = FloatInf) <=> (routing_table[i][k].next_hop_id = None)

\* C3: in every reachable state a route to another server with finite cost has
\* a next_hop that is a neighbor whose link cost is finite
C3_FiniteRouteViaLiveNeighbor ==
    \A i \in Nodes : \A k \in 1..Len(routing_table[i]) :
        (routing_table[i][k].destination_id # i /\ routing_table[i][k].cost < FloatInf)
        => /\ routing_table[i][k].next_hop_id \in DOMAIN neighbors[i]
           /\ neighbors[i][routing_table[i][k].next_hop_id] < FloatInf

\* C4 as claimed: in every reachable state the destinations of the routing
\* table are exactly the ids of the peer directory
C4_RoutesEqualPeers ==
    \A i \in Nodes : Keys(routing_table[i]) = DOMAIN all_servers[i]

\* every server of the peer directory has exactly one route entry
PeersHaveRoutes ==
    \A i \in Nodes :
        /\ DOMAIN all_servers[i] \subseteq Keys(routing_table[i])
        /\ Cardinality(Keys(routing_table[i])) = Len(routing_table[i])

\* a step removes no entry, and adds one only for an id outside the peer
\* directory
RoutesOnlyAdded ==
    \A i \in Nodes :
        /\ Keys(routing_table[i]) \subseteq Keys(routing_table'[i])
        /\ (Keys(routing_table'[i]) \ Keys(routing_table[i])) \cap DOMAIN all_servers[i] = {}

\* C4 amended: the routing table always holds one entry for every id of the
\* peer directory and no entry is ever removed; an announcement that lists a
\* dest_id outside the peer directory adds an entry for it
C4_RoutesCoverPeers == []PeersHaveRoutes /\ [][RoutesOnlyAdded]_vars

\* an announcement naming id 5 was applied: the table has an entry more than
\* the peer directory
C4_Witness ==
    /\ 5 \in Keys(routing_table[1])
    /\ 5 \notin DOMAIN all_servers[1]
    /\ DOMAIN all_servers[1] \subseteq Keys(routing_table[1])

\* the announcements <<sender_id, entries>> that node i decodes from the valid
\* datagrams
ValidAnnouncements(i) ==
    {ParseUpdateMessage(data, all_servers[i]) : data \in ValidDatagrams}

\* the routing table of node i after one more application of the announcement
Applied(rt, i, announcement) ==
    UpdateRoutingTable(rt, neighbors[i], i, announcement[1], announcement[2])

\* C6: in every reachable routing state, applying a valid announcement twice
\* in a row gives the same next_hop and cost for every destination as applying
\* it once
C6_IdempotentAnnouncement ==
    \A i \in Nodes : \A announcement \in ValidAnnouncements(i) :
        \E once \in {Applied(routing_table[i], i, announcement)} :
            Applied(once, i, announcement) = once

\* a state in which one valid announcement raises the cost of a route that
\* goes through its sender (forced refresh) and another one moves a route to
\* its sender (improvement)
C6_Witness ==
    \E refresh \in ValidAnnouncements(1), better \in ValidAnnouncements(1) :
        \E once \in {Applied(routing_table[1], 1, refresh)},
           impr \in {Applied(routing_table[1], 1, better)} :
            /\ Len(once) = Len(routing_table[1])
            /\ \E k \in 1..Len(once) :
                  /\ once[k].cost > routing_table[1][k].cost
                  /\ routing_table[1][k].next_hop_id = refresh[1]
            /\ Len(impr) = Len(routing_table[1])
            /\ \E k \in 1..Len(impr) :
                  /\ impr[k].next_hop_id # routing_table[1][k].next_hop_id
                  /\ impr[k].cost < routing_table[1][k].cost

\* C7: a packets command reports exactly the number of valid announcements
\* received since the previous packets command, whatever number of invalid
\* datagrams arrived as well, and leaves the counter at 0
C7_PacketsCountsValid ==
    [][\A i \in Nodes :
          PacketsCommand(i) =>
              /\ packets_received[i] = valid_received[i]
              /\ packets_received'[i] = 0]_vars

\* C8: a datagram that fails decoding does not increment packets_received and
\* leaves the routing table and the neighbor registry unchanged
C8_InvalidDatagramNotCounted ==
    [][\A i \in Nodes : \A data \in InvalidDatagrams :
          EnvReceive(i, data) =>
              /\ packets_received'[i] = packets_received[i]
              /\ routing_table'[i] = routing_table[i]
              /\ neighbors'[i] = neighbors[i]]_vars

\* C10: after a successful disable of neighbor id the link cost of id is inf
\* and every route whose next_hop was id has cost inf and next_hop None
C10_DisableInvalidates ==
    [][\A i \in Nodes : \A id \in DOMAIN neighbors[i] :
          DisableCommand(i, id) =>
              /\ neighbors'[i][id] = FloatInf
              /\ \A k \in 1..Len(routing_table[i]) :
                    routing_table[i][k].next_hop_id = id =>
                        /\ routing_table'[i][k].cost = FloatInf
                        /\ routing_table'[i][k].next_hop_id = None]_vars

\* C11: a successful disable of neighbor id leaves unchanged every route whose
\* next_hop is not id (the route to id included, when it goes through another
\* neighbor) and the link cost of every other neighbor
C11_DisableFrame ==
    [][\A i \in Nodes : \A id \in DOMAIN neighbors[i] :
          DisableCommand(i, id) =>
              /\ \A k \in 1..Len(routing_table[i]) :
                    routing_table[i][k].next_hop_id # id =>
                        routing_table'[i][k] = routing_table[i][k]
              /\ \A n \in DOMAIN neighbors[i] \ {id} :
                    neighbors'[i][n] = neighbors[i][n]]_vars

\* C12: after a successful update that sets the link cost of neighbor n to
\* inf, every route whose next_hop was n has cost inf and next_hop None
C12_UpdateInfInvalidates ==
    [][\A i \in Nodes : \A n \in DOMAIN neighbors[i] :
          UpdateCommand(i, i, n, FloatInf) =>
              \A k \in 1..Len(routing_table[i]) :
                  routing_table[i][k].next_hop_id = n =>
                      /\ routing_table'[i][k].cost = FloatInf
                      /\ routing_table'[i][k].next_hop_id = None]_vars

\* the routes, the neighbors, the packet counter and the running flag of node
\* i are the same after the step
NodeUnchanged(i) ==
    /\ routing_table'[i] = routing_table[i]
    /\ neighbors'[i] = neighbors[i]
    /\ packets_received'[i] = packets_received[i]
    /\ running'[i] = running[i]

C16_TimeoutSweep ==
    [][\A i \in Nodes : \A n \in DOMAIN neighbors[i] :
          PeriodicUpdate(i) =>
              IF time_since_update[i][n] > TIMEOUT_MULTIPLIER
              THEN neighbors[i][n] < FloatInf =>
                      /\ neighbors'[i][n] = FloatInf
                      /\ \A k \in 1..Len(routing_table[i]) :
                            routing_table[i][k].next_hop_id = n =>
                                /\ routing_table'[i][k].cost = FloatInf
                                /\ routing_table'[i][k].next_hop_id = None
              ELSE neighbors'[i][n] = neighbors[i][n]]_vars

\* ------------------------------------------------------------ the operator at one node
\* the costs the operator types in an update command: a negative number, a
\* cost below and a cost above the link costs of the topology files, and inf
OperatorCosts == {-1, 2, 9, FloatInf}

\* one node between two ticks of its periodic thread: datagrams arrive and the
\* operator types update, disable, packets and display commands
NextOperator ==
    \/ \E i \in Nodes, data \in EnvDatagrams : EnvReceive(i, data)
    \/ \E i \in Nodes, server1 \in CommandIds, server2 \in CommandIds,
          new_cost \in OperatorCosts : UpdateCommand(i, server1, server2, new_cost)
    \/ \E i \in Nodes, server_id \in CommandIds : DisableCommand(i, server_id)
    \/ \E i \in Nodes : PacketsCommand(i)
    \/ \E i \in Nodes : DisplayCommand(i)

SpecOperator == Init /\ [][NextOperator]_vars

\* C13: after a successful update that sets the link cost of neighbor n to a
\* finite value c, routes[n].cost is the smaller of its previous value and c,
\* and every other route entry keeps its next_hop and cost
C13_UpdateFiniteClamps ==
    [][\A i \in Nodes : \A n \in DOMAIN neighbors[i] :
          \A c \in {o \in OperatorCosts : 0 <= o /\ o < FloatInf} :
              UpdateCommand(i, i, n, c) =>
                  \A k \in 1..Len(routing_table[i]) :
                      IF routing_table[i][k].destination_id = n
                      THEN routing_table'[i][k].cost = Min(routing_table[i][k].cost, c)
                      ELSE routing_table'[i][k] = routing_table[i][k]]_vars

\* C14: an update command with a negative cost changes neither the link cost
\* nor any route, so every link cost and every route cost is non-negative in
\* every reachable state
C14_CostsNonNegative ==
    \A i \in Nodes :
        /\ \A n \in DOMAIN neighbors[i] : neighbors[i][n] >= 0
        /\ \A k \in 1..Len(routing_table[i]) : routing_table[i][k].cost >= 0

\* ------------------------------------------------------------ the codec on its own
\* the costs a route entry is drawn from: zero, a link cost, the three values
\* around the INFINITY constant, and float('inf')
CodecCosts == {0, 5, INFINITY - 1, INFINITY, INFINITY + 1, FloatInf}

\* servers 1 and 2 of the local configuration are started and the routes of
\* server 1 to the other servers are given any of the costs above
InitCodec ==
    \E c2 \in CodecCosts, c3 \in CodecCosts :
        /\ all_servers = [i \in {1, 2} |-> LocalServers]
        /\ neighbors = [i \in {1, 2} |-> LocalTopology[i]]
        /\ time_since_update = [i \in {1, 2} |-> [n \in DOMAIN LocalTopology[i] |-> 0]]
        /\ routing_table =
              [i \in {1, 2} |->
                  LET started == InitializeRoutingTable(i, LocalServers, LocalTopology[i])
                  IN IF i = 1 THEN SetCost(SetCost(started, 2, c2), 3, c3) ELSE started]
        /\ packets_received = [i \in {1, 2} |-> 0]
        /\ running = [i \in {1, 2} |-> TRUE]
        /\ socket_open = [i \in {1, 2} |-> TRUE]
        /\ net = [l \in Links({1, 2}) |-> <<>>]
        /\ valid_received = [i \in {1, 2} |-> 0]
        /\ pc = [i \in {1, 2} |-> StartOfRun]

\* the operator of either server types step; the other server decodes the
\* datagram
NextCodec ==
    \/ \E i \in Nodes : StepCommand(i)
    \/ \E i \in Nodes, j \in Nodes : NetReceive(i, j)

SpecCodec == InitCodec /\ [][NextCodec]_vars

\* what server i decodes from its own announcement
RoundTrip(i) ==
    ParseUpdateMessage(CreateUpdateMessage(routing_table[i], all_servers[i], i),
                       all_servers[i])

\* C9: decoding the encoded table gives the sender id and, for every
\* destination of the table, exactly its cost
C9_RoundTripExact ==
    \A i \in Nodes :
        RoundTrip(i) = <<i, [k \in 1..Len(routing_table[i]) |->
                               <<routing_table[i][k].destination_id,
                                 routing_table[i][k].cost>>]>>

\* ------------------------------------------------------------ the three threads of one node
\* the datagrams that reach the node: the announcement of server 2 with server
\* 3 at cost 3, and a datagram shorter than a header
ThreadDatagrams ==
    {Datagram(3, 5002, <<<<2, 0>>, <<1, 5>>, <<3, 3>>>>), <<1, 5002>>}

\* the routing tables that have existed while the periodic thread packs a
\* message, after a step that has left the table `rt`
Observed(instants, ticker, rt) ==
    IF ticker = "pack" THEN instants \cup {rt} ELSE instants

\* periodic_update_thread, `while self.running`
TickerWhile(i) ==
    /\ pc[i].ticker = "while"
    /\ pc' = [pc EXCEPT ![i].ticker = IF running[i] THEN "sleep" ELSE "exited"]
    /\ UNCHANGED <<all_servers, neighbors, time_since_update, routing_table,
                   packets_received, running, socket_open, net, valid_received>>

\* periodic_update_thread wakes from time.sleep: it leaves the loop if the flag
\* is cleared, and runs check_neighbor_timeouts otherwise
TickerWake(i) ==
    /\ pc[i].ticker = "sleep"
    /\ IF running[i]
       THEN /\ \E swept \in {CheckNeighborTimeouts(neighbors[i], time_since_update[i],
                                                    routing_table[i])} :
                 /\ neighbors' = [neighbors EXCEPT ![i] = swept[1]]
                 /\ routing_table' = [routing_table EXCEPT ![i] = swept[2]]
            /\ pc' = [pc EXCEPT ![i].ticker = "send"]
       ELSE /\ pc' = [pc EXCEPT ![i].ticker = "exited"]
            /\ UNCHANGED <<neighbors, routing_table>>
    /\ UNCHANGED <<all_servers, time_since_update, packets_received, running,
                   socket_open, net, valid_received>>

\* TickerSend without the test of self.running
TickerSendUnchecked(i) ==
    /\ pc[i].ticker = "send"
    /\ pc' = [pc EXCEPT ![i].ticker = "sendto",
                          ![i].pending = SortedSeq(DOMAIN neighbors[i]),
                          ![i].message = CreateUpdateMessage(routing_table[i],
                                                             all_servers[i], i)]
    /\ UNCHANGED <<all_servers, neighbors, time_since_update, routing_table,
                   packets_received, running, socket_open, net, valid_received>>

\* the head of send_update_to_neighbors in the periodic thread: return if the
\* flag is cleared, else create the message and enter the loop over
\* self.neighbors (create_update_message is taken as one step here, and step
\* by step in CreateMessageBegin and CreateMessagePack below)
TickerSend(i) ==
    /\ pc[i].ticker = "send"
    /\ pc' = IF running[i]
             THEN [pc EXCEPT ![i].ticker = "sendto",
                             ![i].pending = SortedSeq(DOMAIN neighbors[i]),
                             ![i].message = CreateUpdateMessage(routing_table[i],
                                                                all_servers[i], i)]
             ELSE [pc EXCEPT ![i].ticker = "while"]
    /\ UNCHANGED <<all_servers, neighbors, time_since_update, routing_table,
                   packets_received, running, socket_open, net, valid_received>>

\* the head of send_update_to_neighbors in the periodic thread, up to the end
\* of the locked block of create_update_message: return if the flag is
\* cleared, else take the list of the route entries under the lock and pack
\* the header
CreateMessageBegin(i) ==
    /\ pc[i].ticker = "send"
    /\ pc' = IF running[i]
             THEN [pc EXCEPT ![i].ticker = "pack",
                             ![i].entries = [k \in 1..Len(routing_table[i]) |->
                                                routing_table[i][k].destination_id],
                             ![i].instants = {routing_table[i]},
                             ![i].message = <<Len(routing_table[i]),
                                              all_servers[i][i].port,
                                              all_servers[i][i].ip>>]
             ELSE [pc EXCEPT ![i].ticker = "while"]
    /\ UNCHANGED <<all_servers, neighbors, time_since_update, routing_table,
                   packets_received, running, socket_open, net, valid_received>>

\* one turn of the packing loop of create_update_message, outside the lock:
\* it reads the cost of the next entry of its list and appends the entry's
\* words; after the last entry the message is returned and the loop over
\* self.neighbors is entered
CreateMessagePack(i) ==
    /\ pc[i].ticker = "pack"
    /\ pc[i].entries # <<>>
    /\ \E packed \in {pc[i].message
                       \o PackEntry(Get(routing_table[i], Head(pc[i].entries)),
                                    all_servers[i])} :
          pc' = IF Len(pc[i].entries) > 1
                THEN [pc EXCEPT ![i].entries = Tail(@), ![i].message = packed]
                ELSE [pc EXCEPT ![i].ticker = "sendto", ![i].entries = <<>>,
                                ![i].message = packed,
                                ![i].pending = SortedSeq(DOMAIN neighbors[i])]
    /\ UNCHANGED <<all_servers, neighbors, time_since_update, routing_table,
                   packets_received, running, socket_open, net, valid_received>>

\* one turn of the loop of send_update_to_neighbors: self.socket.sendto to the
\* next neighbor (on a closed socket it raises OSError, which the loop
\* catches), then on to the next neighbor or back to the while loop
TickerSendto(i) ==
    /\ pc[i].ticker = "sendto"
    /\ pc[i].pending # <<>>
    /\ net' = IF socket_open[i]
              THEN SendTo(net, i, [n \in {Head(pc[i].pending)} |-> neighbors[i][n]],
                          pc[i].message)
              ELSE net
    /\ pc' = IF Len(pc[i].pending) > 1
             THEN [pc EXCEPT ![i].pending = Tail(@), ![i].announced = TRUE]
             ELSE [pc EXCEPT ![i].ticker = "while", ![i].pending = <<>>,
                             ![i].message = <<>>, ![i].instants = {},
                             ![i].announced = TRUE]
    /\ UNCHANGED <<all_servers, neighbors, time_since_update, routing_table,
                   packets_received, running, socket_open, valid_received>>

\* receive_thread, `while self.running`
ReceiverWhile(i) ==
    /\ pc[i].receiver = "while"
    /\ pc' = [pc EXCEPT ![i].receiver = IF running[i] THEN "recvfrom" ELSE "exited"]
    /\ UNCHANGED <<all_servers, neighbors, time_since_update, routing_table,
                   packets_received, running, socket_open, net, valid_received>>

\* a recvfrom that never times out
ReceiverNoDatagramBlocking(i) ==
    /\ FALSE
    /\ UNCHANGED vars

\* recvfrom returns no datagram: socket.timeout after one second, or OSError
\* at once when the socket is closed; both lead back to the while test
ReceiverNoDatagram(i) ==
    /\ pc[i].receiver = "recvfrom"
    /\ pc' = [pc EXCEPT ![i].receiver = "while"]
    /\ UNCHANGED <<all_servers, neighbors, time_since_update, routing_table,
                   packets_received, running, socket_open, net, valid_received>>

\* recvfrom returns the datagram `data`: the thread leaves the loop if the
\* flag is cleared; otherwise it counts the datagram, decodes it, notes that
\* the sender was heard from and enters update_routing_table, which returns at
\* once for a sender that is no neighbor and else reads the link cost of the
\* sender, before it takes the lock
ReceiverDatagram(i, data) ==
    /\ pc[i].receiver = "recvfrom"
    /\ socket_open[i]
    /\ packets_received[i] < MaxPackets
    /\ IF running[i]
       THEN \E parsed \in {ParseUpdateMessage(data, all_servers[i])} :
              LET sender_id == parsed[1]
              IN /\ packets_received' = [packets_received EXCEPT ![i] = CountUp(@)]
                 /\ valid_received' = [valid_received EXCEPT ![i] =
                                          IF sender_id # None THEN CountUp(@) ELSE @]
                 /\ time_since_update' =
                       IF sender_id # None /\ sender_id \in DOMAIN time_since_update[i]
                       THEN [time_since_update EXCEPT ![i][sender_id] = 0]
                       ELSE time_since_update
                 /\ pc' = IF sender_id # None /\ sender_id \in DOMAIN neighbors[i]
                          THEN [pc EXCEPT ![i].receiver = "lock",
                                          ![i].announcement = parsed,
                                          ![i].cost_to_sender = neighbors[i][sender_id]]
                          ELSE [pc EXCEPT ![i].receiver = "while"]
       ELSE /\ pc' = [pc EXCEPT ![i].receiver = "exited"]
            /\ UNCHANGED <<time_since_update, packets_received, valid_received>>
    /\ UNCHANGED <<all_servers, neighbors, routing_table, running, socket_open, net>>

\* the locked block of update_routing_table: the loop over the entries, with
\* the link cost read before the lock was taken
ReceiverRelax(i) ==
    /\ pc[i].receiver = "lock"
    /\ \E relaxed \in {Relax(routing_table[i], i, pc[i].announcement[1],
                              pc[i].cost_to_sender, pc[i].announcement[2])} :
          /\ routing_table' = [routing_table EXCEPT ![i] = relaxed]
          /\ pc' = [pc EXCEPT ![i].receiver = "while", ![i].announcement = <<>>,
                                ![i].cost_to_sender = 0,
                                ![i].instants = Observed(@, pc[i].ticker, relaxed)]
    /\ UNCHANGED <<all_servers, neighbors, time_since_update, packets_received,
                   running, socket_open, net, valid_received>>

\* packets, first half: the command prints the counter
PacketsPrint(i) ==
    /\ pc[i].command = "input"
    /\ running[i]
    /\ pc' = [pc EXCEPT ![i].command = "reset", ![i].printed = packets_received[i]]
    /\ UNCHANGED <<all_servers, neighbors, time_since_update, routing_table,
                   packets_received, running, socket_open, net, valid_received>>

\* packets, second half: the command sets the counter to zero
PacketsReset(i) ==
    /\ pc[i].command = "reset"
    /\ packets_received' = [packets_received EXCEPT ![i] = 0]
    /\ valid_received' = [valid_received EXCEPT ![i] = 0]
    /\ pc' = [pc EXCEPT ![i].command = "input", ![i].printed = 0]
    /\ UNCHANGED <<all_servers, neighbors, time_since_update, routing_table,
                   running, socket_open, net>>

\* disable of a neighbor, typed while the other threads run
DisableStep(i, server_id) ==
    /\ running[i]
    /\ HandleDisableCommand(i, server_id)
    /\ pc' = [pc EXCEPT ![i].instants = Observed(@, pc[i].ticker, routing_table'[i])]
    /\ UNCHANGED <<all_servers, time_since_update, packets_received, running,
                   socket_open, net, valid_received>>

\* command_thread reads one of the commands that return to input()
CommandThread(i) ==
    \/ /\ pc[i].command = "input"
       /\ \/ StepCommand(i)
          \/ \E server_id \in DOMAIN neighbors[i] : DisableStep(i, server_id)
    \/ PacketsPrint(i)
    \/ PacketsReset(i)

\* crash, first statement of handle_crash_command: self.running = False
CrashFlag(i) ==
    /\ pc[i].command = "input"
    /\ running[i]
    /\ running' = [running EXCEPT ![i] = FALSE]
    /\ pc' = [pc EXCEPT ![i].command = "close"]
    /\ UNCHANGED <<all_servers, neighbors, time_since_update, routing_table,
                   packets_received, socket_open, net, valid_received>>

\* crash, second statement: self.socket.close()
CrashClose(i) ==
    /\ pc[i].command = "close"
    /\ socket_open' = [socket_open EXCEPT ![i] = FALSE]
    /\ pc' = [pc EXCEPT ![i].command = "exit"]
    /\ UNCHANGED <<all_servers, neighbors, time_since_update, routing_table,
                   packets_received, running, net, valid_received>>

\* crash, third statement: sys.exit(0); SystemExit is no Exception, so it
\* leaves command_thread, run and main
CrashExit(i) ==
    /\ pc[i].command = "exit"
    /\ pc' = [pc EXCEPT ![i].command = "exited"]
    /\ UNCHANGED <<all_servers, neighbors, time_since_update, routing_table,
                   packets_received, running, socket_open, net, valid_received>>

\* KeyboardInterrupt in input(): run clears the flag and returns
Interrupt(i) ==
    /\ pc[i].command = "input"
    /\ running[i]
    /\ running' = [running EXCEPT ![i] = FALSE]
    /\ pc' = [pc EXCEPT ![i].command = "exited"]
    /\ UNCHANGED <<all_servers, neighbors, time_since_update, routing_table,
                   packets_received, socket_open, net, valid_received>>

\* EOFError in input(): command_thread breaks out of its loop with the flag
\* still set, and run returns
EndOfInput(i) ==
    /\ pc[i].command = "input"
    /\ pc' = [pc EXCEPT ![i].command = "exited"]
    /\ UNCHANGED <<all_servers, neighbors, time_since_update, routing_table,
                   packets_received, running, socket_open, net, valid_received>>

\* the main thread has left run: the interpreter exits and the two daemon
\* threads end with it, wherever they are
ProcessExit(i) ==
    /\ pc[i].command = "exited"
    /\ {pc[i].ticker, pc[i].receiver} \ {"exited", "killed"} # {}
    /\ pc' = [pc EXCEPT
                ![i].ticker = IF @ = "exited" THEN @ ELSE "killed",
                ![i].receiver = IF @ = "exited" THEN @ ELSE "killed",
                ![i].pending = <<>>, ![i].message = <<>>,
                ![i].entries = <<>>, ![i].instants = {},
                ![i].announcement = <<>>, ![i].cost_to_sender = 0]
    /\ socket_open' = [socket_open EXCEPT ![i] = FALSE]
    /\ UNCHANGED <<all_servers, neighbors, time_since_update, routing_table,
                   packets_received, running, net, valid_received>>

\* a step of the periodic thread of node i
TickerThread(i) ==
    \/ TickerWhile(i)
    \/ TickerWake(i)
    \/ TickerSend(i)
    \/ TickerSendto(i)

\* a step of the receive thread of node i that needs no datagram to arrive
ReceiverThread(i) ==
    \/ ReceiverWhile(i)
    \/ ReceiverNoDatagram(i)
    \/ ReceiverRelax(i)

InitThreads == Startup({1}, LocalServers, LocalTopology)

NextThreads ==
    \/ Elapse
    \/ \E i \in Nodes : TickerWhile(i)
    \/ \E i \in Nodes : TickerWake(i)
    \/ \E i \in Nodes : TickerSend(i)
    \/ \E i \in Nodes : TickerSendto(i)
    \/ \E i \in Nodes : ReceiverWhile(i)
    \/ \E i \in Nodes : ReceiverNoDatagram(i)
    \/ \E i \in Nodes, data \in ThreadDatagrams : ReceiverDatagram(i, data)
    \/ \E i \in Nodes : ReceiverRelax(i)
    \/ \E i \in Nodes : CommandThread(i)
    \/ \E i \in Nodes : CrashFlag(i)
    \/ \E i \in Nodes : CrashClose(i)
    \/ \E i \in Nodes : CrashExit(i)
    \/ \E i \in Nodes : Interrupt(i)
    \/ \E i \in Nodes : EndOfInput(i)
    \/ \E i \in Nodes : ProcessExit(i)

\* every thread that can take a step takes one, and a crash command runs to
\* its end; nothing is assumed about datagrams, commands or the moment the
\* interpreter exits
FairThreads ==
    /\ WF_vars(TickerThread(1))
    /\ WF_vars(ReceiverThread(1))
    /\ WF_vars(CrashClose(1))
    /\ WF_vars(CrashExit(1))

SpecThreads == InitThreads /\ [][NextThreads]_vars /\ FairThreads

\* ------------------------------------------------------------ properties of the threads
\* C17: every emission sends the datagram only to neighbors whose link cost is
\* finite at that moment
C17_EmissionToLiveNeighborsOnly ==
    [][\A i \in Nodes :
          TickerSendto(i) => neighbors[i][Head(pc[i].pending)] < FloatInf]_vars

\* the flag of node i is never set again after it was cleared
FlagOnlyCleared == \A i \in Nodes : running'[i] => running[i]

\* C18 as a property of every sendto: the flag starts true, is never set
\* again, and no datagram is sent by the periodic thread or by step while it
\* is false
C18_NoSendAfterFlagCleared ==
    /\ \A i \in Nodes : pc[i] = StartOfRun => running[i]
    /\ [][/\ FlagOnlyCleared
          /\ \A i \in Nodes :
                (TickerSendto(i) \/ (pc[i].command = "input" /\ StepCommand(i)))
                    => running[i]]_vars

\* C18: the flag starts true and is never set again; while it is false
\* neither the periodic thread nor step begins an emission (an emission of
\* the periodic thread that passed its test of the flag earlier still runs
\* its sendto loop)
C18_NoEmissionBegunAfterFlagCleared ==
    /\ \A i \in Nodes : pc[i] = StartOfRun => running[i]
    /\ [][/\ FlagOnlyCleared
          /\ \A i \in Nodes :
                \/ pc[i].ticker # "sendto" /\ pc'[i].ticker = "sendto"
                \/ pc[i].command = "input" /\ StepCommand(i)
                => running[i]]_vars

\* the flag is false and the periodic thread is inside its sendto loop
C18_Witness ==
    /\ ~running[1]
    /\ pc[1].ticker = "sendto"
    /\ pc[1].pending # <<>>

\* each of the three threads of node i has ended
Terminated(i) ==
    /\ pc[i].ticker \in {"exited", "killed"}
    /\ pc[i].receiver \in {"exited", "killed"}
    /\ pc[i].command = "exited"

\* while the flag is false the periodic thread does not begin another sleep
\* and the receive thread does not begin another recvfrom
NoNewWait ==
    \A i \in Nodes :
        ~running[i] =>
            /\ pc[i].ticker # "sleep" => pc'[i].ticker # "sleep"
            /\ pc[i].receiver # "recvfrom" => pc'[i].receiver # "recvfrom"

\* C19: once the flag is false, the periodic thread, the receive thread and
\* the command thread all end, the periodic thread after at most the sleep it
\* is in and the receive thread after at most the recvfrom it is in
C19_ThreadsEnd ==
    /\ \A i \in {1} : ~running[i] ~> Terminated(i)
    /\ [][NoNewWait]_vars

\* the flag was cleared while the periodic thread slept and the receive
\* thread waited in recvfrom, and all three threads have left their loops by
\* themselves
C19_Witness ==
    /\ ~running[1]
    /\ pc[1].ticker = "exited"
    /\ pc[1].receiver = "exited"
    /\ pc[1].command = "exited"

\* C20: the socket is closed only after the periodic thread and the receive
\* thread have stopped, and no thread calls sendto or recvfrom on the closed
\* socket
C20_CloseAfterThreadsStopped ==
    [][\A i \in Nodes :
          /\ CrashClose(i) =>
                /\ pc[i].ticker \in {"exited", "killed"}
                /\ pc[i].receiver \in {"exited", "killed"}
          /\ TickerSendto(i) => socket_open[i]
          /\ pc[i].receiver = "recvfrom" /\ pc'[i].receiver # "recvfrom"
                => socket_open[i]]_vars

\* C21: after startup the node sends its distance vector to its neighbors at
\* once, before the first update interval has elapsed and without any
\* command: whenever the periodic thread is in its sleep, it has sent an
\* announcement before
C21_InitialAnnouncement ==
    \A i \in Nodes : pc[i].ticker = "sleep" => pc[i].announced

\* C22: a relaxation is atomic with respect to the commands and the sweep:
\* the link cost it computes candidates with is the link cost in force while
\* it writes the routes, and so no route with a finite cost goes through a
\* neighbor whose link cost is inf
C22_RelaxationAtomic ==
    \A i \in Nodes :
        /\ pc[i].receiver = "lock" =>
               pc[i].cost_to_sender = neighbors[i][pc[i].announcement[1]]
        /\ \A k \in 1..Len(routing_table[i]) :
               (routing_table[i][k].destination_id # i
                /\ routing_table[i][k].cost < FloatInf)
               => /\ routing_table[i][k].next_hop_id \in DOMAIN neighbors[i]
                  /\ neighbors[i][routing_table[i][k].next_hop_id] < FloatInf

\* C23: the increment of the receiver and the read-and-reset of the packets
\* command are mutually atomic, so that no increment is lost or reported
\* twice: the counter that a packets command sets to zero holds the value the
\* command has printed
C23_NoIncrementLost ==
    [][\A i \in Nodes : PacketsReset(i) => packets_received[i] = pc[i].printed]_vars

\* ------------------------------------------------------------ the triangle
\* node 1's routing table with the route to 3 through next_hop
TriangleTable(next_hop) ==
    {RoutingEntry(1, 1, 0), RoutingEntry(2, 2, 5), RoutingEntry(3, next_hop, 8)}

Entries(rt) == {rt[k] : k \in 1..Len(rt)}

\* C24 as stated: in the triangle with link costs 5, 3 and 8 and no
\* commands, the announcements bring node 1's routing table to
\* {1:(1,0), 2:(2,5), 3:(2,8)}
C24_ColdConvergenceVia2 ==
    (neighbors = LocalTopology) ~> (Entries(routing_table[1]) = TriangleTable(2))

\* C24: in the triangle with link costs 5, 3 and 8 and no commands, node 1's
\* routing table is {1:(1,0), 2:(2,5), 3:(3,8)} after every number of
\* announcement rounds: the path through 2 costs 8 as well, and a tie does not
\* replace the next hop
C24_ColdConvergence ==
    neighbors = LocalTopology =>
        /\ Len(routing_table[1]) = 3
        /\ Entries(routing_table[1]) = TriangleTable(3)

\* node 1 of the triangle has relaxed an announcement of node 2: the link
\* from 2 to 1 is empty again after node 2 has sent on both its links
C24_Witness ==
    /\ neighbors = LocalTopology
    /\ valid_received[1] > 0
    /\ net[<<2, 1>>] = <<>>
    /\ net[<<2, 3>>] # <<>>

\* ------------------------------------------------------------ a link cost change
\* the three servers of the triangle are started, and the operator of node 2
\* may type `update 1 2 1`
InitUpdate == Startup({1, 2, 3}, LocalServers, LocalTopology)

NextUpdate ==
    \/ \E i \in Nodes : PeriodicUpdate(i)
    \/ \E i \in Nodes, j \in Nodes : NetReceive(i, j)
    \/ UpdateCommand(2, 1, 2, 1)

SpecUpdate == InitUpdate /\ [][NextUpdate]_vars /\ FairNet

\* node 3's routing table once the new cost of the link 1-2 has reached it
UpdatedTable3 ==
    {RoutingEntry(1, 2, 4), RoutingEntry(2, 2, 3), RoutingEntry(3, 3, 0)}

\* the datagram at the head of the link from j to i announces destination d
\* at cost c
Announces(j, i, d, c) ==
    /\ net[<<j, i>>] # <<>>
    /\ LET entries == ParseUpdateMessage(Head(net[<<j, i>>]), all_servers[i])[2]
       IN \E p \in 1..Len(entries) : entries[p] = <<d, c>>

\* C25: in the triangle, after the operator of node 2 has issued
\* `update 1 2 1`, node 3's routing table becomes and stays
\* {1:(2,4), 2:(2,3), 3:(3,0)}, and it does so as soon as node 3 receives an
\* announcement that node 2 made after the command
C25_UpdatePropagates ==
    /\ (neighbors[2][1] = 1) ~> [](Entries(routing_table[3]) = UpdatedTable3)
    /\ [][(NetReceive(3, 2) /\ Announces(2, 3, 1, 1))
            => Entries(routing_table'[3]) = UpdatedTable3]_vars

\* the command was issued on node 2 and node 3 has learnt the cheaper path
\* to 1 from an announcement
C25_Witness ==
    /\ neighbors[2][1] = 1
    /\ valid_received[3] > 0
    /\ Entries(routing_table[3]) = UpdatedTable3

\* ------------------------------------------------------------ the relaxation rules
\* the cost the announcement advertises for destination d (None if it does
\* not name d)
AdvertisedCost(announcement, d) ==
    LET entries == announcement[2]
    IN IF \E p \in 1..Len(entries) : entries[p][1] = d
       THEN entries[CHOOSE p \in 1..Len(entries) : entries[p][1] = d][2]
       ELSE None

\* the routes of node i that an announcement of a neighbor relaxes: the
\* positions k of the routing table whose destination is not i and is named
\* by the announcement
Relaxed(i, announcement) ==
    IF announcement[1] \notin DOMAIN neighbors[i] THEN {}
    ELSE {k \in 1..Len(routing_table[i]) :
             /\ routing_table[i][k].destination_id # i
             /\ AdvertisedCost(announcement, routing_table[i][k].destination_id) # None}

\* candidate = link_cost(s) + advertised_cost(d) for the route at position k
Candidate(i, announcement, k) ==
    Plus(neighbors[i][announcement[1]],
         AdvertisedCost(announcement, routing_table[i][k].destination_id))

\* C26: when an announcement from sender s is relaxed, a route whose candidate
\* is strictly less than its cost becomes (next_hop s, cost candidate), a
\* route whose candidate equals its cost is left unchanged, and the next hop
\* of a route changes in no other case
C26_StrictImprovement ==
    \A i \in Nodes : \A announcement \in ValidAnnouncements(i) :
        \E post \in {Applied(routing_table[i], i, announcement)} :
            \A k \in Relaxed(i, announcement) :
                LET cur == routing_table[i][k]
                    candidate == Candidate(i, announcement, k)
                IN /\ candidate < cur.cost =>
                        post[k] = RoutingEntry(cur.destination_id, announcement[1],
                                               candidate)
                   /\ candidate = cur.cost => post[k] = cur
                   /\ candidate >= cur.cost => post[k].next_hop_id = cur.next_hop_id

\* an announcement was received, and in the state reached one announcement
\* ties with a route through another neighbor and one is strictly better than
\* a route through another neighbor
C26_Witness ==
    /\ valid_received[1] > 0
    /\ \E tie \in ValidAnnouncements(1), better \in ValidAnnouncements(1) :
          /\ \E k \in Relaxed(1, tie) :
                /\ Candidate(1, tie, k) = routing_table[1][k].cost
                /\ routing_table[1][k].cost < FloatInf
                /\ routing_table[1][k].next_hop_id # tie[1]
          /\ \E k \in Relaxed(1, better) :
                /\ Candidate(1, better, k) < routing_table[1][k].cost
                /\ routing_table[1][k].next_hop_id \notin {better[1], None}

\* C27: when an announcement from sender s is relaxed, a route whose next hop
\* is s takes the candidate as its cost, also when the candidate is larger or
\* inf, and a route whose next hop is not s does not get a larger cost
C27_ForcedRefresh ==
    \A i \in Nodes : \A announcement \in ValidAnnouncements(i) :
        \E post \in {Applied(routing_table[i], i, announcement)} :
            \A k \in Relaxed(i, announcement) :
                LET cur == routing_table[i][k]
                    candidate == Candidate(i, announcement, k)
                IN IF cur.next_hop_id = announcement[1]
                   THEN post[k] = RoutingEntry(cur.destination_id, announcement[1],
                                               candidate)
                   ELSE post[k].cost <= cur.cost

\* a route learnt from an announcement goes through its sender at a finite
\* cost, and an announcement of that sender has inf as the candidate; another
\* announcement has a candidate larger than the cost of a route through
\* another neighbor
C27_Witness ==
    /\ valid_received[1] > 0
    /\ \E lost \in ValidAnnouncements(1), worse \in ValidAnnouncements(1) :
          /\ \E k \in Relaxed(1, lost) :
                /\ routing_table[1][k].next_hop_id = lost[1]
                /\ routing_table[1][k].destination_id # lost[1]
                /\ routing_table[1][k].cost < FloatInf
                /\ Candidate(1, lost, k) = FloatInf
          /\ \E k \in Relaxed(1, worse) :
                /\ routing_table[1][k].next_hop_id \notin {worse[1], None}
                /\ Candidate(1, worse, k) > routing_table[1][k].cost

\* C28: a decoded announcement whose sender is no neighbor, or a neighbor
\* whose link cost is inf, is dropped by the update engine: the datagram is
\* counted, and no entry of the routing table changes its next hop or cost
C28_DropFromDeadSender ==
    [][\A i \in Nodes : \A data \in ValidDatagrams :
          (/\ EnvReceive(i, data)
           /\ LET sender_id == ParseUpdateMessage(data, all_servers[i])[1]
              IN \/ sender_id \notin DOMAIN neighbors[i]
                 \/ neighbors[i][sender_id] = FloatInf)
          => \A k \in 1..Len(routing_table[i]) :
                /\ k <= Len(routing_table'[i])
                /\ routing_table'[i][k] = routing_table[i][k]]_vars

\* ------------------------------------------------------------ the emitted vector
\* the dest_id word and the cost word of the f-th entry of datagram m
DestWord(m, f) == m[3 + 5 * (f - 1) + 4]

CostWord(m, f) == m[3 + 5 * (f - 1) + 5]

\* the datagram a step has appended to link l
Emitted(l) == net'[l][Len(net'[l])]

\* the links from node i that a step has appended a datagram to
Grown(i) == {l \in DOMAIN net : l[1] = i /\ Len(net'[l]) > Len(net[l])}

StartupTable(i) ==
    /\ Len(routing_table[i]) = Cardinality(DOMAIN all_servers[i])
    /\ \A d \in DOMAIN all_servers[i] :
          /\ d \in Keys(routing_table[i])
          /\ Get(routing_table[i], d) =
                IF d = i THEN RoutingEntry(d, d, 0)
                ELSE IF d \in DOMAIN neighbors[i]
                THEN RoutingEntry(d, d, neighbors[i][d])
                ELSE RoutingEntry(d, None, FloatInf)

\* C30: immediately after startup the routing table of every node has an
\* entry for every peer: self with next hop self and cost 0, each configured
\* neighbor n with next hop n and its configured link cost, every other peer
\* with no next hop and cost inf; the set of peers is that of the topology
\* file from then on
C30_StartupTable ==
    /\ \A i \in Nodes : StartupTable(i)
    /\ [][all_servers' = all_servers]_vars

\* the servers of the line have just been started: nothing was sent or
\* received, and server 3 is a peer of server 1 that is no neighbor
C30_Witness ==
    /\ neighbors = LineTopology
    /\ \A l \in DOMAIN net : net[l] = <<>>
    /\ \A i \in Nodes : valid_received[i] = 0 /\ packets_received[i] = 0
    /\ 3 \notin DOMAIN neighbors[1]
    /\ Get(routing_table[1], 3) = RoutingEntry(3, None, FloatInf)

\* ------------------------------------------------------------ infinity on the wire
\* C31: infinity is absorbing end to end: a route whose cost is inf at the
\* sender is decoded as inf, the candidate computed from it is inf for any
\* link cost and is lower than no cost, and a route whose cost is finite at
\* the sender is not decoded as inf
C31_InfinityAbsorbing ==
    \A i \in Nodes :
        \E decoded \in {RoundTrip(i)[2]} :
            /\ Len(decoded) = Len(routing_table[i])
            /\ \A k \in 1..Len(decoded) :
                  /\ routing_table[i][k].cost = FloatInf =>
                        /\ decoded[k][2] = FloatInf
                        /\ \A link_cost \in CodecCosts, current_cost \in CodecCosts :
                              /\ Plus(link_cost, decoded[k][2]) = FloatInf
                              /\ ~(Plus(link_cost, decoded[k][2]) < current_cost)
                  /\ routing_table[i][k].cost < FloatInf => decoded[k][2] < FloatInf

\* ------------------------------------------------------------ neighbors heard from
\* C32: a decoded announcement of a neighbor sets the time since that
\* neighbor was heard from to zero, and the sweep leaves the link cost of a
\* neighbor as it is when that time is at most TIMEOUT_MULTIPLIER update
\* intervals: a neighbor heard from in every window of that length is never
\* marked dead
C32_HeardNeighborStaysAlive ==
    [][\A i \in Nodes :
          /\ packets_received'[i] > packets_received[i] =>
                \A data \in ValidDatagrams :
                    EnvReceive(i, data) =>
                        LET sender_id == ParseUpdateMessage(data, all_servers[i])[1]
                        IN sender_id \in DOMAIN neighbors[i] =>
                              time_since_update'[i][sender_id] = 0
          /\ PeriodicUpdate(i) =>
                \A n \in DOMAIN neighbors[i] :
                    time_since_update[i][n] <= TIMEOUT_MULTIPLIER
                    => neighbors'[i][n] = neighbors[i][n]]_vars

\* the sweep has marked neighbor 3 dead after more than TIMEOUT_MULTIPLIER
\* intervals without an announcement, while neighbor 2, whose announcement
\* has just been received, has kept its link cost
C32_Witness ==
    /\ DOMAIN neighbors[1] = {2, 3}
    /\ valid_received[1] > 0
    /\ time_since_update[1][2] = 0
    /\ neighbors[1][2] = 5
    /\ time_since_update[1][3] > TIMEOUT_MULTIPLIER
    /\ neighbors[1][3] = FloatInf
    /\ Get(routing_table[1], 3).next_hop_id = 3

\* ------------------------------------------------------------ the emitted snapshot
\* one node whose periodic thread builds its message entry by entry while the
\* receive thread relaxes announcements and the operator disables neighbors;
\* every neighbor is heard from within the timeout
NextSnapshot ==
    \/ \E i \in Nodes : TickerWhile(i)
    \/ \E i \in Nodes : TickerWake(i)
    \/ \E i \in Nodes : CreateMessageBegin(i)
    \/ \E i \in Nodes : CreateMessagePack(i)
    \/ \E i \in Nodes : TickerSendto(i)
    \/ \E i \in Nodes : ReceiverWhile(i)
    \/ \E i \in Nodes, data \in ThreadDatagrams : ReceiverDatagram(i, data)
    \/ \E i \in Nodes : ReceiverRelax(i)
    \/ \E i \in Nodes : PacketsReset(i)
    \/ \E i \in Nodes : PacketsPrint(i)
    \/ \E i \in Nodes : \E server_id \in DOMAIN neighbors[i] :
          pc[i].command = "input" /\ DisableStep(i, server_id)

SpecSnapshot == InitThreads /\ [][NextSnapshot]_vars

\* C33: every announcement the periodic thread sends is a consistent
\* snapshot: it is the encoding of the routing table as it was at one instant
\* while create_update_message ran, whatever the receive thread and the
\* commands did meanwhile
C33_ConsistentSnapshot ==
    \A i \in Nodes :
        pc[i].ticker = "sendto" =>
            \E rt \in pc[i].instants :
                pc[i].message = CreateUpdateMessage(rt, all_servers[i], i)

\* ------------------------------------------------------------ links that are down
\* C34: the link cost of a neighbor that is inf becomes finite only in a step
\* of an update command that names the neighbor with a finite cost: no
\* received announcement and no tick of the periodic thread makes it finite
C34_OnlyUpdateRevivesLink ==
    [][\A i \in Nodes : \A n \in DOMAIN neighbors[i] :
          (neighbors[i][n] = FloatInf /\ neighbors'[i][n] < FloatInf)
          => \E server1 \in CommandIds, server2 \in CommandIds,
                new_cost \in UpdateCosts \ {FloatInf} :
                /\ {server1, server2} = {i, n}
                /\ UpdateCommand(i, server1, server2, new_cost)]_vars

\* the link to neighbor 2, the only neighbor, is down, and an announcement of
\* neighbor 2 was relaxed while it was down: the id 5 it names has an entry
\* without a next hop
C34_Witness ==
    /\ DOMAIN neighbors[1] = {2}
    /\ neighbors[1][2] = FloatInf
    /\ 5 \in Keys(routing_table[1])
    /\ Get(routing_table[1], 5).next_hop_id = None
    /\ time_since_update[1][2] > 0

\* ------------------------------------------------------------ no underestimate
\* C35: with stable symmetric link costs, no commands and no timeouts, at
\* every node the cost of the route to every destination is at least the cost
\* of the shortest path to it
C35_NoUnderestimate ==
    \A i \in Nodes, d \in Nodes : Get(routing_table[i], d).cost >= ShortestPath(i, d)

\* in the triangle whose direct link 1-3 costs 10, node 1 has learnt the path
\* through 2 at cost 8 from an announcement, while node 3 still has the
\* direct route at cost 10
C35_Witness ==
    /\ neighbors = DetourTopology
    /\ valid_received[1] > 0
    /\ Get(routing_table[1], 3) = RoutingEntry(3, 2, 8)
    /\ Get(routing_table[3], 1) = RoutingEntry(1, 1, 10)

\* ------------------------------------------------------------ links that come back
\* the operator restores the link to a neighbor whose link cost is inf with
\* update and a finite cost
RestoreLink(i) ==
    \E n \in DOMAIN neighbors[i], new_cost \in UpdateCosts \ {FloatInf} :
        /\ neighbors[i][n] = FloatInf
        /\ UpdateCommand(i, i, n, new_cost)

\* one node whose links are taken down by disable, by update with inf and by
\* the timeout sweep, and are restored by update with a finite cost only when
\* they are down
NextRestore ==
    \/ Elapse
    \/ \E i \in Nodes : PeriodicUpdate(i)
    \/ \E i \in Nodes, data \in EnvDatagrams : EnvReceive(i, data)
    \/ \E i \in Nodes, server_id \in CommandIds : DisableCommand(i, server_id)
    \/ \E i \in Nodes, server2 \in CommandIds : UpdateCommand(i, i, server2, FloatInf)
    \/ \E i \in Nodes : RestoreLink(i)
    \/ \E i \in Nodes : PacketsCommand(i)

SpecRestore == Init /\ [][NextRestore]_vars

\* under NextRestore the link cost of neighbor n is one of the finite costs
\* of the update command only after the link was down and was restored
Restored(i, n) == neighbors[i][n] \in UpdateCosts \ {FloatInf}

\* C36: after the link to neighbor n was taken down and the operator has
\* restored it with update to a finite cost c, an announcement of n that
\* carries n's own entry at cost 0 leaves the route to n with a cost no
\* greater than c and a next hop that is a neighbor with a finite link cost
C36_RestoredLinkRoute ==
    [][\A i \in Nodes :
          packets_received'[i] > packets_received[i] =>
              \A data \in ValidDatagrams :
                  EnvReceive(i, data) =>
                      LET announcement == ParseUpdateMessage(data, all_servers[i])
                          n == announcement[1]
                      IN (/\ n \in DOMAIN neighbors[i]
                          /\ Restored(i, n)
                          /\ AdvertisedCost(announcement, n) = 0)
                         => LET route == Get(routing_table'[i], n)
                            IN /\ route.cost <= neighbors[i][n]
                               /\ route.next_hop_id \in DOMAIN neighbors[i]
                               /\ neighbors[i][route.next_hop_id] < FloatInf]_vars

====
